---- MODULE Spec2Model ----
(***************************************************************************)
(* A model of SmartRetry (rootvector2/SmartRetry): one invocation of       *)
(* smartRetry(fn, options) as a state machine, together with the clock,    *)
(* the AbortSignal and the wrapped operation as its environment.           *)
(*                                                                         *)
(* Conventions.  A JavaScript value that may be `undefined` is a sequence  *)
(* of length at most one: <<>> is undefined and <<v>> is the value v.      *)
(* Every throwable value (an operation error, an abort reason) is an       *)
(* error object, a record [tag, id, code, status, response]; id gives the  *)
(* object its identity.  The value of a code or status property is a       *)
(* record [typeof, isInteger, n, s], so that the typeof and                *)
(* Number.isInteger tests of the code are tests of the model.  Times are   *)
(* integers in milliseconds.                                               *)
(***************************************************************************)
EXTENDS Integers, Sequences, FiniteSets, TLC

VARIABLES
  options,      \* the RetryOptions object passed by the caller
  cfg,          \* the effective values, smartRetry.ts 90-97
  pc,           \* the position of the invocation in smartRetry
  now,          \* the value Date.now() returns
  startTime,    \* smartRetry.ts 99
  attempt,      \* the loop variable, smartRetry.ts 111
  lastError,    \* smartRetry.ts 109
  delay,        \* smartRetry.ts 169
  aborted,      \* signal.aborted
  reason,       \* signal.reason
  timerId,      \* utils.ts sleep: the pending timer's due time, or undefined
  onAbort,      \* utils.ts sleep: whether the abort listener is registered
  sleepPromise, \* utils.ts sleep: "none", "pending", "resolved", "rejected"
  outcome,      \* how the promise returned by smartRetry settled
  calls,        \* history: the attempt indices fn was invoked with
  thrown,       \* history: the errors fn rejected with, in order
  retryOnCalls, \* history: the (error, attempt) pairs given to retryOn
  onRetryCalls, \* history: the (error, attempt, delay) triples given to onRetry
  sleeps,       \* history: the ms of the sleeps started
  signalConsulted, \* history: whether signal.aborted has been read
  abortedAtCall,   \* history: signal.aborted when smartRetry was called
  abortedDuring,   \* history: what the invocation was suspended in at abort()
  clamped,         \* history: Math.min of line 185 gave the remaining budget
  site,            \* history: the throw or return statement that settled
  probe,           \* the error a policy function is applied to on its own
  verdict,         \* the function applied to probe and what it returned
  peer             \* the locals of a second invocation while this one runs

vars == <<options, cfg, pc, now, startTime, attempt, lastError, delay, aborted,
          reason, timerId, onAbort, sleepPromise, outcome, calls, thrown,
          retryOnCalls, onRetryCalls, sleeps, signalConsulted, abortedAtCall,
          abortedDuring, clamped, site, probe, verdict, peer>>

----------------------------------------------------------------------------
(* Bounds of the model.                                                    *)

\* the largest maxRetries a caller passes
MaxRetriesBound == 2
\* the clock ticks one millisecond at a time up to this value
MaxTime == 4
\* the largest attempt index below the overflow given to calculateBackoffDelay
MaxBackoffIndex == 5
\* the largest timeoutMs a caller passes
MaxTimeout == 3
\* Math.random() returns k / RandDen for k in 0 .. RandDen-1
RandDen == 2

----------------------------------------------------------------------------
(* JavaScript values.                                                      *)

undefined == <<>>

Some(v) == <<v>>

Val(x) == x[1]

\* the ?? operator
Nullish(x, d) == IF x = undefined THEN d ELSE Val(x)

Min(a, b) == IF a <= b THEN a ELSE b

\* the number n, an integer
Num(n) == [typeof |-> "number", isInteger |-> TRUE, n |-> n, s |-> ""]

\* the number n + 0.5
Frac(n) == [typeof |-> "number", isInteger |-> FALSE, n |-> n, s |-> ""]

\* the string s
Str(s) == [typeof |-> "string", isInteger |-> FALSE, n |-> 0, s |-> s]

\* tag "primitive" is a thrown value that is no object (null, a string);
\* every other tag is an object with the properties given
ErrorObject(tag, id, code, status, response) ==
  [tag |-> tag, id |-> id, code |-> code, status |-> status, response |-> response]

\* the value of error.response: an object with the status property given,
\* or a value that is no object (null, a string)
ResponseObject(status) == [isObject |-> TRUE, status |-> status]

NonObjectResponse == [isObject |-> FALSE, status |-> undefined]

\* what the wrapped operation throws: a plain Error or an Error with status 400
OpErrorShapes == {"plain", "s400"}

OpError(shape, id) ==
  CASE shape = "plain" -> ErrorObject("op", id, undefined, undefined, undefined)
    [] shape = "s400"  -> ErrorObject("op", id, undefined, Some(Num(400)), undefined)

\* controller.abort(reason): the reason the caller gives
AbortReason == ErrorObject("reason", 0, undefined, undefined, undefined)

----------------------------------------------------------------------------
(* utils.ts                                                                *)

RECURSIVE Pow2(_)
\* Math.pow(2, n) for the exponents the loop reaches
Pow2(n) == IF n <= 0 THEN 1 ELSE 2 * Pow2(n - 1)

\* Math.pow(2, attempt) is Infinity from this exponent on (doubles end at 2^1024)
InfiniteExp == 1024

\* mutant: Math.min is left out, only the overflow is guarded
calculateBackoffDelay_Uncapped(attemptIdx, baseDelayMs, maxDelayMs) ==
  IF attemptIdx >= InfiniteExp
    THEN maxDelayMs
    ELSE baseDelayMs * Pow2(attemptIdx)

calculateBackoffDelay(attemptIdx, baseDelayMs, maxDelayMs) ==
  IF attemptIdx >= InfiniteExp
    THEN maxDelayMs                              \* !Number.isFinite(delay)
    ELSE Min(maxDelayMs, baseDelayMs * Pow2(attemptIdx))

\* mutant: Math.random() may return 1
applyJitter_Inclusive(d) ==
  { (k * d) \div RandDen : k \in { j \in 0 .. RandDen : (j * d) % RandDen = 0 } }

\* The values Math.random() * d takes: Math.random() is k / RandDen with
\* 0 <= k < RandDen; of these the model keeps the k whose product with d is a
\* whole number of milliseconds.
applyJitter(d) ==
  { (k * d) \div RandDen : k \in { j \in 0 .. RandDen - 1 : (j * d) % RandDen = 0 } }

RETRYABLE_NETWORK_CODES == {"ECONNRESET", "ETIMEDOUT", "ENOTFOUND", "EAI_AGAIN"}

isNetworkError(error) ==
  IF error.tag = "primitive" THEN FALSE
  ELSE IF error.code # undefined /\ Val(error.code).typeof = "string"
    THEN Val(error.code).s \in RETRYABLE_NETWORK_CODES
    ELSE FALSE

----------------------------------------------------------------------------
(* policies.ts                                                             *)

\* typeof status === "number" && Number.isInteger(status)
IsIntegerNumber(x) ==
  x # undefined /\ Val(x).typeof = "number" /\ Val(x).isInteger

\* mutant: error.response.status is not looked at
extractHttpStatus_NoFallback(error) ==
  IF error.tag = "primitive" THEN undefined
  ELSE IF IsIntegerNumber(error.status) THEN Some(Val(error.status).n)
  ELSE undefined

extractHttpStatus(error) ==
  IF error.tag = "primitive" THEN undefined
  ELSE IF IsIntegerNumber(error.status)
    THEN Some(Val(error.status).n)
  ELSE IF /\ error.response # undefined
          /\ Val(error.response).isObject
          /\ IsIntegerNumber(Val(error.response).status)
    THEN Some(Val(Val(error.response).status).n)
  ELSE undefined

isRetryableHttpError(error) ==
  LET status == extractHttpStatus(error) IN
  IF status = undefined THEN FALSE
  ELSE IF Val(status) = 429 THEN TRUE
  ELSE IF Val(status) >= 500 /\ Val(status) <= 599 THEN TRUE
  ELSE FALSE

\* mutant: an error with no recognized status or code is not retried
defaultRetryPolicy_StopsOnUnknown(error) ==
  LET status == extractHttpStatus(error) IN
  IF isNetworkError(error) THEN TRUE
  ELSE IF status # undefined /\ Val(status) = 429 THEN TRUE
  ELSE IF status # undefined /\ Val(status) >= 500 /\ Val(status) <= 599 THEN TRUE
  ELSE FALSE

defaultRetryPolicy(error) ==
  LET status == extractHttpStatus(error) IN
  IF isNetworkError(error) THEN TRUE
  ELSE IF status # undefined /\ Val(status) = 429 THEN TRUE
  ELSE IF status # undefined /\ Val(status) >= 500 /\ Val(status) <= 599 THEN TRUE
  ELSE IF status # undefined /\ Val(status) >= 400 /\ Val(status) <= 499 THEN FALSE
  ELSE TRUE

----------------------------------------------------------------------------
(* smartRetry.ts: the defaults and the validation                          *)

DEFAULT_maxRetries == 3
DEFAULT_baseDelayMs == 300
DEFAULT_maxDelayMs == 5000
DEFAULT_jitter == TRUE

\* mutant: baseDelayMs = 0 is accepted (< for <=)
validateOptions_ZeroBase(o) ==
  LET effectiveBaseDelay == Nullish(o.baseDelayMs, DEFAULT_baseDelayMs) IN
  IF o.maxRetries # undefined /\ Val(o.maxRetries) < 0 THEN "maxRetries"
  ELSE IF o.baseDelayMs # undefined /\ Val(o.baseDelayMs) < 0 THEN "baseDelayMs"
  ELSE IF o.maxDelayMs # undefined /\ Val(o.maxDelayMs) < effectiveBaseDelay THEN "maxDelayMs"
  ELSE IF o.timeoutMs # undefined /\ Val(o.timeoutMs) <= 0 THEN "timeoutMs"
  ELSE "ok"

\* The Error validateOptions throws, named by the option it reports, or "ok".
validateOptions(o) ==
  LET effectiveBaseDelay == Nullish(o.baseDelayMs, DEFAULT_baseDelayMs) IN
  IF o.maxRetries # undefined /\ Val(o.maxRetries) < 0 THEN "maxRetries"
  ELSE IF o.baseDelayMs # undefined /\ Val(o.baseDelayMs) <= 0 THEN "baseDelayMs"
  ELSE IF o.maxDelayMs # undefined /\ Val(o.maxDelayMs) < effectiveBaseDelay THEN "maxDelayMs"
  ELSE IF o.timeoutMs # undefined /\ Val(o.timeoutMs) <= 0 THEN "timeoutMs"
  ELSE "ok"

\* The caller's retryOn predicates: one that always retries, one that never
\* does, one that retries only after the initial attempt.
retryOnPredicates == {"always", "never", "firstOnly"}

ApplyRetryOn(name, error, attemptIdx) ==
  CASE name = "always"    -> TRUE
    [] name = "never"     -> FALSE
    [] name = "firstOnly" -> attemptIdx = 0

\* mutant: the caller's predicate only narrows the default policy
retryOn_WithinDefault(error, attemptIdx) ==
  /\ defaultRetryPolicy(error)
  /\ cfg.retryOn # undefined => ApplyRetryOn(Val(cfg.retryOn), error, attemptIdx)

\* mutant: the caller's predicate is ignored
retryOn_IgnoresCaller(error, attemptIdx) == defaultRetryPolicy(error)

\* const retryOn = options.retryOn ?? defaultRetryPolicy; retryOn(error, attempt)
retryOn(error, attemptIdx) ==
  IF cfg.retryOn = undefined
    THEN defaultRetryPolicy(error)
    ELSE ApplyRetryOn(Val(cfg.retryOn), error, attemptIdx)

----------------------------------------------------------------------------
(* The outcome of the invocation.                                          *)

Pending ==
  [kind |-> "pending", totalAttempts |-> undefined, totalElapsedMs |-> undefined,
   cause |-> undefined, error |-> undefined, value |-> undefined, message |-> ""]

\* return result
Returned(v) == [Pending EXCEPT !.kind = "returned", !.value = Some(v)]

\* throw error: the operation's own error, unwrapped
Rethrown(e) == [Pending EXCEPT !.kind = "rethrown", !.error = Some(e)]

\* what a throwing onRetry hook throws
HookError == ErrorObject("hook", 0, undefined, undefined, undefined)

\* the exception of the onRetry call of line 190, which nothing catches
HookThrew(e) == [Pending EXCEPT !.kind = "exception", !.error = Some(e)]

\* throw new Error(`smartRetry: ...`) of validateOptions
ConfigError(which) == [Pending EXCEPT !.kind = "Error", !.message = which]

\* new SmartRetryError(message, metadata, options) and its three subclasses
SmartRetryError(name, totalAttempts, totalElapsedMs, cause) ==
  [Pending EXCEPT !.kind = name, !.totalAttempts = Some(totalAttempts),
                  !.totalElapsedMs = Some(totalElapsedMs), !.cause = cause]

TimeoutError(totalAttempts, totalElapsedMs, cause) ==
  SmartRetryError("TimeoutError", totalAttempts, totalElapsedMs, cause)

AbortError(totalAttempts, totalElapsedMs, cause) ==
  SmartRetryError("AbortError", totalAttempts, totalElapsedMs, cause)

RetryExhaustedError(totalAttempts, totalElapsedMs, cause) ==
  SmartRetryError("RetryExhaustedError", totalAttempts, totalElapsedMs, cause)

----------------------------------------------------------------------------
(* The caller's inputs.                                                    *)

MaxRetriesInputs == {undefined} \cup { Some(n) : n \in -1 .. MaxRetriesBound }
BaseDelayInputs  == {undefined, Some(0), Some(2), Some(6000)}
MaxDelayInputs   == {undefined, Some(1), Some(4)}
JitterInputs     == {undefined, Some(FALSE)}
RetryOnInputs    == {undefined} \cup { Some(p) : p \in retryOnPredicates }
OnRetryInputs    == {undefined, Some("hook")}
TimeoutInputs    == {undefined, Some(0), Some(MaxTimeout)}
SignalInputs     == {undefined, Some("signal")}

RetryOptions ==
  [maxRetries : MaxRetriesInputs, baseDelayMs : BaseDelayInputs,
   maxDelayMs : MaxDelayInputs, jitter : JitterInputs, retryOn : RetryOnInputs,
   onRetry : OnRetryInputs, timeoutMs : TimeoutInputs, signal : SignalInputs]

NoCfg ==
  [maxRetries |-> 0, baseDelayMs |-> 0, maxDelayMs |-> 0, jitter |-> FALSE,
   retryOn |-> undefined, onRetry |-> undefined, timeoutMs |-> undefined,
   signal |-> undefined]

\* no policy function has been applied to probe
NoVerdict == [fn |-> "none", result |-> FALSE]

\* onRetry hooks that do more than return: one throws, one aborts the signal
HookInputs == OnRetryInputs \cup {Some("throws"), Some("aborts")}

\* the options of a caller whose hook may throw or abort
HookOptions ==
  [maxRetries : MaxRetriesInputs, baseDelayMs : BaseDelayInputs,
   maxDelayMs : MaxDelayInputs, jitter : JitterInputs, retryOn : RetryOnInputs,
   onRetry : HookInputs, timeoutMs : TimeoutInputs, signal : SignalInputs]

\* RetryOptions with no field given
NoOptions ==
  [maxRetries |-> undefined, baseDelayMs |-> undefined, maxDelayMs |-> undefined,
   jitter |-> undefined, retryOn |-> undefined, onRetry |-> undefined,
   timeoutMs |-> undefined, signal |-> undefined]

\* the locals of an invocation about to be called with o and a signal that
\* is aborted or not: the parameters, constants and variables of lines 84-111,
\* of its signal and of its call of sleep, and its history
InitialLocals(o, isAborted) ==
  [options |-> o, cfg |-> NoCfg, pc |-> "call", startTime |-> 0, attempt |-> 0,
   lastError |-> undefined, delay |-> 0, aborted |-> isAborted,
   reason |-> (IF isAborted THEN Some(AbortReason) ELSE undefined),
   timerId |-> undefined, onAbort |-> FALSE, sleepPromise |-> "none",
   outcome |-> Pending, calls |-> <<>>, thrown |-> <<>>, retryOnCalls |-> <<>>,
   onRetryCalls |-> <<>>, sleeps |-> <<>>, signalConsulted |-> FALSE,
   abortedAtCall |-> isAborted, abortedDuring |-> "none",
   clamped |-> FALSE, site |-> "none"]

\* there is no second invocation
NoPeer == [InitialLocals(NoOptions, FALSE) EXCEPT !.pc = "none"]

\* smartRetry(fn, o) is about to be called with an o of the set given
StartWith(optionSet) ==
  /\ options \in optionSet
  /\ cfg = NoCfg
  /\ pc = "call"
  /\ now = 0
  /\ startTime = 0
  /\ attempt = 0
  /\ lastError = undefined
  /\ delay = 0
  /\ aborted \in (IF options.signal = undefined THEN {FALSE} ELSE BOOLEAN)
  /\ reason = (IF aborted THEN Some(AbortReason) ELSE undefined)
  /\ timerId = undefined
  /\ onAbort = FALSE
  /\ sleepPromise = "none"
  /\ outcome = Pending
  /\ calls = <<>>
  /\ thrown = <<>>
  /\ retryOnCalls = <<>>
  /\ onRetryCalls = <<>>
  /\ sleeps = <<>>
  /\ signalConsulted = FALSE
  /\ abortedAtCall = aborted
  /\ abortedDuring = "none"
  /\ clamped = FALSE
  /\ site = "none"
  /\ probe = AbortReason
  /\ verdict = NoVerdict

\* one invocation on its own
InitWith(optionSet) ==
  /\ StartWith(optionSet)
  /\ peer = NoPeer

\* the caller's callbacks return normally and leave the signal alone
Init == InitWith(RetryOptions)

\* the caller's onRetry may also throw or abort the signal
HookInit == InitWith(HookOptions)

----------------------------------------------------------------------------
(* smartRetry.ts: the invocation, one action per step between two reads of *)
(* the clock or two suspension points.                                     *)

\* the history variables no step of the invocation but its own writes
hist == <<abortedAtCall, abortedDuring, clamped, probe, verdict, peer>>

\* mutant: the error or value is built but control stays where it was
Settle_FallsThrough(o, where) ==
  /\ outcome' = o
  /\ site' = where
  /\ pc' = pc

\* the promise settles at the statement `where`: nothing runs afterwards
Settle(o, where) ==
  /\ outcome' = o
  /\ site' = where
  /\ pc' = "done"

\* the invocation goes on to the step `next`
Goto(next) ==
  /\ pc' = next
  /\ UNCHANGED <<outcome, site>>

\* signal?.aborted, lines 102, 124, 159, 198
SignalAborted == cfg.signal # undefined /\ aborted

\* mutant: the entry check is left out
AbortedAtEntry_Skipped == FALSE

\* if (signal?.aborted) of the entry check, line 102
AbortedAtEntry == SignalAborted

\* mutant: the signal is checked before the first attempt only
AbortedBeforeAttempt_FirstOnly == SignalAborted /\ attempt = 0

\* if (signal?.aborted) before each attempt, line 124
AbortedBeforeAttempt == SignalAborted

\* reading signal?.aborted
ConsultSignal == signalConsulted' = (signalConsulted \/ cfg.signal # undefined)

\* Date.now() - startTime
Elapsed == now - startTime

\* mutant: the budget is never looked at
TimedOut_Never(elapsed) == FALSE

\* mutant: > for >=
TimedOut_Strict(elapsed) == cfg.timeoutMs # undefined /\ elapsed > Val(cfg.timeoutMs)

\* timeoutMs !== undefined and elapsed >= timeoutMs, lines 113-115 and 148-150
TimedOut(elapsed) == cfg.timeoutMs # undefined /\ elapsed >= Val(cfg.timeoutMs)

\* mutant: the break of the final attempt is missing
LastAttempt_Never == FALSE

\* mutant: > for >=
LastAttempt_Strict == attempt > cfg.maxRetries

\* mutant: the loop gives up one attempt early
LastAttempt_OffByOne == attempt >= cfg.maxRetries - 1

\* attempt >= maxRetries, line 138
LastAttempt == attempt >= cfg.maxRetries

\* mutant: the attempt index reported as the count
AttemptsAfterFailure_Index == attempt

\* the metadata of the throws after a failed attempt, lines 152, 161, 181, 200
AttemptsAfterFailure == attempt + 1

\* mutant: the index advances by two
NextAttempt_Skips == attempt + 2

\* mutant: the loop counter is not advanced
NextAttempt_Stays == attempt

\* the for statement's attempt++, line 111
NextAttempt == attempt + 1

\* mutant: the delay is not clamped
ClampedDelay_None(d, remaining) == d

\* delay = Math.min(delay, remaining), line 185
ClampedDelay(d, remaining) == Min(d, remaining)

\* mutant: the backoff exponent counts the retry, not the failed attempt
RetryIndex_FromOne == attempt + 1

\* const retryIndex = attempt, line 168
RetryIndex == attempt

\* signal?.addEventListener("abort", onAbort, { once: true }), utils.ts 106-112
ListensForAbort == cfg.signal # undefined

\* mutant: the count is the configured maxRetries
ExhaustedError_MaxRetries == RetryExhaustedError(cfg.maxRetries, Elapsed, lastError)

\* mutant: the cause is the last error of the operation
AbortCause_LastError == lastError

\* { cause: signal.reason }, lines 106, 128, 162, 201
AbortCause == reason

\* mutant: the exception of the hook is swallowed
HookThrows_Caught == FALSE

\* onRetry(error, attempt + 1, delay) throws, line 190
HookThrows == cfg.onRetry = Some("throws")

\* onRetry(error, attempt + 1, delay) calls controller.abort(), line 190
HookAborts == cfg.onRetry = Some("aborts") /\ cfg.signal # undefined /\ ~aborted

\* mutant: sleep does not look at the signal before it starts the timer
AbortedAtSleep_Skipped == FALSE

\* if (signal?.aborted) of sleep, utils.ts 82
AbortedAtSleep == SignalAborted

\* mutant: cleanup removes the listener but does not clear the timer
cleanup_KeepsTimer ==
  /\ timerId' = timerId
  /\ onAbort' = FALSE

\* mutant: cleanup leaves the abort listener registered
cleanup_KeepsListener ==
  /\ timerId' = undefined
  /\ onAbort' = onAbort

\* lines 90-99 of sleep: clearTimeout and removeEventListener
cleanup ==
  /\ timerId' = undefined
  /\ onAbort' = FALSE

\* mutant: the jitter is applied to the uncapped product, then the cap
BackoffDelays_JitterFirst(i) ==
  IF cfg.jitter
    THEN { Min(cfg.maxDelayMs, v) : v \in applyJitter(cfg.baseDelayMs * Pow2(i)) }
    ELSE {calculateBackoffDelay(i, cfg.baseDelayMs, cfg.maxDelayMs)}

\* lines 169-173: the values delay takes for the retry index i
BackoffDelays(i) ==
  LET backoff == calculateBackoffDelay(i, cfg.baseDelayMs, cfg.maxDelayMs)
  IN  IF cfg.jitter THEN applyJitter(backoff) ELSE {backoff}

\* lines 212-217
ExhaustedError == RetryExhaustedError(cfg.maxRetries + 1, Elapsed, lastError)

\* lines 90-97
EffectiveOptions(o) ==
  [maxRetries  |-> Nullish(o.maxRetries, DEFAULT_maxRetries),
   baseDelayMs |-> Nullish(o.baseDelayMs, DEFAULT_baseDelayMs),
   maxDelayMs  |-> Nullish(o.maxDelayMs, DEFAULT_maxDelayMs),
   jitter      |-> Nullish(o.jitter, DEFAULT_jitter),
   retryOn     |-> o.retryOn,
   onRetry     |-> o.onRetry,
   timeoutMs   |-> o.timeoutMs,
   signal      |-> o.signal]

\* lines 88-97
CallSmartRetry ==
  /\ pc = "call"
  /\ LET v == validateOptions(options) IN
     IF v # "ok"
       THEN /\ Settle(ConfigError(v), "validate")
            /\ UNCHANGED cfg
       ELSE /\ cfg' = EffectiveOptions(options)
            /\ Goto("entry")
  /\ UNCHANGED <<options, now, startTime, attempt, lastError, delay, aborted, reason,
                 timerId, onAbort, sleepPromise, calls, thrown, retryOnCalls,
                 onRetryCalls, sleeps, signalConsulted, hist>>

\* lines 99-111
EntryAbortCheck ==
  /\ pc = "entry"
  /\ startTime' = now
  /\ ConsultSignal
  /\ IF AbortedAtEntry
       THEN /\ Settle(AbortError(0, 0, AbortCause), "entry")
            /\ UNCHANGED <<attempt, lastError>>
       ELSE /\ lastError' = undefined
            /\ attempt' = 0
            /\ Goto("loop")
  /\ UNCHANGED <<options, cfg, now, delay, aborted, reason, timerId, onAbort,
                 sleepPromise, calls, thrown, retryOnCalls, onRetryCalls, sleeps, hist>>

\* mutant: the budget is tested before the first attempt only
CheckTimeoutBeforeAttempt_FirstOnly ==
  /\ pc = "loop"
  /\ IF ~(attempt <= cfg.maxRetries)
       THEN Goto("exhausted")
       ELSE IF TimedOut(Elapsed) /\ attempt = 0
         THEN Settle(TimeoutError(attempt, Elapsed, lastError), "preAttempt")
         ELSE Goto("preAbort")
  /\ UNCHANGED <<options, cfg, now, startTime, attempt, lastError, delay, aborted,
                 reason, timerId, onAbort, sleepPromise, calls, thrown,
                 retryOnCalls, onRetryCalls, sleeps, signalConsulted, hist>>

\* lines 111-121
CheckTimeoutBeforeAttempt ==
  /\ pc = "loop"
  /\ IF ~(attempt <= cfg.maxRetries)
       THEN Goto("exhausted")
       ELSE IF TimedOut(Elapsed)
         THEN Settle(TimeoutError(attempt, Elapsed, lastError), "preAttempt")
         ELSE Goto("preAbort")
  /\ UNCHANGED <<options, cfg, now, startTime, attempt, lastError, delay, aborted,
                 reason, timerId, onAbort, sleepPromise, calls, thrown,
                 retryOnCalls, onRetryCalls, sleeps, signalConsulted, hist>>

\* lines 123-132: the check and the call of fn are one synchronous run
CheckAbortAndInvoke ==
  /\ pc = "preAbort"
  /\ ConsultSignal
  /\ IF AbortedBeforeAttempt
       THEN /\ Settle(AbortError(attempt, Elapsed, AbortCause), "preAttempt")
            /\ UNCHANGED calls
       ELSE /\ calls' = Append(calls, attempt)
            /\ Goto("running")
  /\ UNCHANGED <<options, cfg, now, startTime, attempt, lastError, delay, aborted,
                 reason, timerId, onAbort, sleepPromise, thrown, retryOnCalls,
                 onRetryCalls, sleeps, hist>>

\* mutant: the budget is checked again before the result is returned
FnResolves_ChecksBudget ==
  /\ pc = "running"
  /\ IF TimedOut(Elapsed)
       THEN Settle(TimeoutError(attempt + 1, Elapsed, lastError), "return")
       ELSE Settle(Returned(Len(calls)), "return")
  /\ UNCHANGED <<options, cfg, now, startTime, attempt, lastError, delay, aborted,
                 reason, timerId, onAbort, sleepPromise, calls, thrown,
                 retryOnCalls, onRetryCalls, sleeps, signalConsulted, hist>>

\* lines 132-133: fn's promise fulfils; the value is named by the invocation
FnResolves ==
  /\ pc = "running"
  /\ Settle(Returned(Len(calls)), "return")
  /\ UNCHANGED <<options, cfg, now, startTime, attempt, lastError, delay, aborted,
                 reason, timerId, onAbort, sleepPromise, calls, thrown,
                 retryOnCalls, onRetryCalls, sleeps, signalConsulted, hist>>

\* lines 134-140: fn's promise rejects
FnRejects ==
  /\ pc = "running"
  /\ \E shape \in OpErrorShapes :
       LET error == OpError(shape, Len(calls)) IN
       /\ lastError' = Some(error)
       /\ thrown' = Append(thrown, error)
  /\ Goto(IF LastAttempt THEN "exhausted" ELSE "retryOn")
  /\ UNCHANGED <<options, cfg, now, startTime, attempt, delay, aborted, reason,
                 timerId, onAbort, sleepPromise, calls, retryOnCalls,
                 onRetryCalls, sleeps, signalConsulted, hist>>

\* mutant: the budget is checked before the predicate is consulted
ConsultRetryOn_AfterTimeout ==
  /\ pc = "retryOn"
  /\ IF TimedOut(Elapsed)
       THEN /\ Settle(TimeoutError(AttemptsAfterFailure, Elapsed, lastError), "postFailure")
            /\ UNCHANGED retryOnCalls
       ELSE /\ retryOnCalls' = Append(retryOnCalls, <<Val(lastError), attempt>>)
            /\ IF ~retryOn(Val(lastError), attempt)
                 THEN Settle(Rethrown(Val(lastError)), "retryOn")
                 ELSE Goto("postTimeout")
  /\ UNCHANGED <<options, cfg, now, startTime, attempt, lastError, delay, aborted,
                 reason, timerId, onAbort, sleepPromise, calls, thrown,
                 onRetryCalls, sleeps, signalConsulted, hist>>

\* lines 142-145
ConsultRetryOn ==
  /\ pc = "retryOn"
  /\ retryOnCalls' = Append(retryOnCalls, <<Val(lastError), attempt>>)
  /\ IF ~retryOn(Val(lastError), attempt)
       THEN Settle(Rethrown(Val(lastError)), "retryOn")
       ELSE Goto("postTimeout")
  /\ UNCHANGED <<options, cfg, now, startTime, attempt, lastError, delay, aborted,
                 reason, timerId, onAbort, sleepPromise, calls, thrown,
                 onRetryCalls, sleeps, signalConsulted, hist>>

\* mutant: after a failure the signal is tested before the budget
CheckTimeoutBeforeSleep_AbortFirst ==
  /\ pc = "postTimeout"
  /\ IF SignalAborted
       THEN Settle(AbortError(AttemptsAfterFailure, Elapsed, AbortCause), "postFailure")
       ELSE IF TimedOut(Elapsed)
         THEN Settle(TimeoutError(AttemptsAfterFailure, Elapsed, lastError), "postFailure")
         ELSE Goto("postAbort")
  /\ UNCHANGED <<options, cfg, now, startTime, attempt, lastError, delay, aborted,
                 reason, timerId, onAbort, sleepPromise, calls, thrown,
                 retryOnCalls, onRetryCalls, sleeps, signalConsulted, hist>>

\* lines 147-156
CheckTimeoutBeforeSleep ==
  /\ pc = "postTimeout"
  /\ IF TimedOut(Elapsed)
       THEN Settle(TimeoutError(AttemptsAfterFailure, Elapsed, lastError), "postFailure")
       ELSE Goto("postAbort")
  /\ UNCHANGED <<options, cfg, now, startTime, attempt, lastError, delay, aborted,
                 reason, timerId, onAbort, sleepPromise, calls, thrown,
                 retryOnCalls, onRetryCalls, sleeps, signalConsulted, hist>>

\* lines 158-164
CheckAbortBeforeSleep ==
  /\ pc = "postAbort"
  /\ ConsultSignal
  /\ IF SignalAborted
       THEN Settle(AbortError(AttemptsAfterFailure, Elapsed, AbortCause), "postFailure")
       ELSE Goto("delay")
  /\ UNCHANGED <<options, cfg, now, startTime, attempt, lastError, delay, aborted,
                 reason, timerId, onAbort, sleepPromise, calls, thrown,
                 retryOnCalls, onRetryCalls, sleeps, hist>>

\* lines 166-173
ComputeDelay ==
  /\ pc = "delay"
  /\ delay' \in BackoffDelays(RetryIndex)
  /\ Goto("clamp")
  /\ UNCHANGED <<options, cfg, now, startTime, attempt, lastError, aborted, reason,
                 timerId, onAbort, sleepPromise, calls, thrown, retryOnCalls,
                 onRetryCalls, sleeps, signalConsulted, hist>>

\* lines 175-186
ClampDelay ==
  /\ pc = "clamp"
  /\ LET remaining == Val(cfg.timeoutMs) - Elapsed IN
     IF cfg.timeoutMs # undefined /\ remaining <= 0
       THEN /\ Settle(TimeoutError(AttemptsAfterFailure, Elapsed, lastError), "clamp")
            /\ UNCHANGED <<delay, clamped>>
       ELSE /\ delay' = IF cfg.timeoutMs # undefined
                          THEN ClampedDelay(delay, remaining) ELSE delay
            /\ clamped' = (cfg.timeoutMs # undefined /\ remaining <= delay)
            /\ Goto("onRetry")
  /\ UNCHANGED <<options, cfg, now, startTime, attempt, lastError, aborted, reason,
                 timerId, onAbort, sleepPromise, calls, thrown, retryOnCalls,
                 onRetryCalls, sleeps, signalConsulted, abortedAtCall,
                 abortedDuring, probe, verdict, peer>>

\* lines 188-191
NotifyOnRetry ==
  /\ pc = "onRetry"
  /\ onRetryCalls' = IF cfg.onRetry # undefined
                       THEN Append(onRetryCalls, <<Val(lastError), attempt + 1, delay>>)
                       ELSE onRetryCalls
  /\ IF HookThrows
       THEN Settle(HookThrew(HookError), "onRetry")
       ELSE Goto("sleep")
  /\ IF HookAborts
       THEN /\ aborted' = TRUE
            /\ reason' = Some(AbortReason)
            /\ abortedDuring' = "hook"
       ELSE UNCHANGED <<aborted, reason, abortedDuring>>
  /\ UNCHANGED <<options, cfg, now, startTime, attempt, lastError, delay, timerId,
                 onAbort, sleepPromise, calls, thrown, retryOnCalls, sleeps,
                 signalConsulted, abortedAtCall, clamped, probe, verdict, peer>>

----------------------------------------------------------------------------
(* utils.ts: sleep(ms, signal)                                             *)

\* smartRetry.ts 195 calling sleep, utils.ts 80-113
StartSleep ==
  /\ pc = "sleep"
  /\ ConsultSignal
  /\ IF AbortedAtSleep
       THEN /\ sleepPromise' = "rejected"
            /\ UNCHANGED <<timerId, onAbort, sleeps>>
       ELSE /\ timerId' = Some(now + delay)
            /\ onAbort' = ListensForAbort
            /\ sleepPromise' = "pending"
            /\ sleeps' = Append(sleeps, delay)
  /\ Goto("sleeping")
  /\ UNCHANGED <<options, cfg, now, startTime, attempt, lastError, delay, aborted,
                 reason, calls, thrown, retryOnCalls, onRetryCalls, hist>>

\* mutant: the timer's callback rejects the promise
TimerFires_Rejects ==
  /\ timerId # undefined
  /\ now' = IF now < Val(timerId) THEN Val(timerId) ELSE now
  /\ cleanup
  /\ sleepPromise' = "rejected"
  /\ UNCHANGED <<options, cfg, pc, startTime, attempt, lastError, delay, aborted,
                 reason, outcome, site, calls, thrown, retryOnCalls, onRetryCalls,
                 sleeps, signalConsulted, hist>>

\* utils.ts 101-104: the timer's callback; a timer never fires before it is due
TimerFires ==
  /\ timerId # undefined
  /\ now' = IF now < Val(timerId) THEN Val(timerId) ELSE now
  /\ cleanup
  /\ sleepPromise' = "resolved"
  /\ UNCHANGED <<options, cfg, pc, startTime, attempt, lastError, delay, aborted,
                 reason, outcome, site, calls, thrown, retryOnCalls, onRetryCalls,
                 sleeps, signalConsulted, hist>>

\* controller.abort(reason) by the caller, while the invocation is suspended
\* in fn or in sleep; it runs the abort listener of sleep (utils.ts 107-110)
Abort ==
  /\ options.signal # undefined
  /\ ~aborted
  /\ pc \in {"running", "sleeping"}
  /\ aborted' = TRUE
  /\ reason' = Some(AbortReason)
  /\ IF onAbort
       THEN /\ cleanup
            /\ sleepPromise' = "rejected"
       ELSE UNCHANGED <<timerId, onAbort, sleepPromise>>
  /\ abortedDuring' = (IF pc = "running" THEN "execution"
                       ELSE IF sleepPromise = "pending" THEN "delay"
                       ELSE "afterDelay")
  /\ UNCHANGED <<options, cfg, pc, now, startTime, attempt, lastError, delay,
                 outcome, site, calls, thrown, retryOnCalls, onRetryCalls, sleeps,
                 signalConsulted, abortedAtCall, clamped, probe, verdict, peer>>

\* smartRetry.ts 195 and 111: the sleep resolved, attempt++
ResumeAfterSleep ==
  /\ pc = "sleeping"
  /\ sleepPromise = "resolved"
  /\ sleepPromise' = "none"
  /\ attempt' = NextAttempt
  /\ Goto("loop")
  /\ UNCHANGED <<options, cfg, now, startTime, lastError, delay, aborted, reason,
                 timerId, onAbort, calls, thrown, retryOnCalls, onRetryCalls,
                 sleeps, signalConsulted, hist>>

\* smartRetry.ts 196-208: the sleep rejected
CatchSleepRejection ==
  /\ pc = "sleeping"
  /\ sleepPromise = "rejected"
  /\ sleepPromise' = "none"
  /\ ConsultSignal
  /\ IF SignalAborted
       THEN Settle(AbortError(AttemptsAfterFailure, Elapsed, AbortCause), "sleep")
       ELSE Settle(AbortError(AttemptsAfterFailure, Elapsed, lastError), "sleep")
  /\ UNCHANGED <<options, cfg, now, startTime, attempt, lastError, delay, aborted,
                 reason, timerId, onAbort, calls, thrown, retryOnCalls,
                 onRetryCalls, sleeps, hist>>

\* mutant: the budget and the signal are looked at once more before giving up
ThrowExhausted_ChecksAgain ==
  /\ pc = "exhausted"
  /\ IF TimedOut(Elapsed)
       THEN Settle(TimeoutError(AttemptsAfterFailure, Elapsed, lastError), "exhausted")
       ELSE IF SignalAborted
         THEN Settle(AbortError(AttemptsAfterFailure, Elapsed, AbortCause), "exhausted")
         ELSE Settle(ExhaustedError, "exhausted")
  /\ UNCHANGED <<options, cfg, now, startTime, attempt, lastError, delay, aborted,
                 reason, timerId, onAbort, sleepPromise, calls, thrown,
                 retryOnCalls, onRetryCalls, sleeps, signalConsulted, hist>>

\* smartRetry.ts 212-217
ThrowExhausted ==
  /\ pc = "exhausted"
  /\ Settle(ExhaustedError, "exhausted")
  /\ UNCHANGED <<options, cfg, now, startTime, attempt, lastError, delay, aborted,
                 reason, timerId, onAbort, sleepPromise, calls, thrown,
                 retryOnCalls, onRetryCalls, sleeps, signalConsulted, hist>>

\* The clock advances: while the invocation is suspended in fn or in sleep,
\* and before the reads of Date.now() of lines 114 and 177.  Time that passes
\* at another point of the synchronous code is read no earlier than the next
\* of these points, so it is the same as time passing there.
Tick ==
  /\ pc \in {"loop", "running", "clamp", "sleeping"}
  /\ now < MaxTime
  /\ now' = now + 1
  /\ UNCHANGED <<options, cfg, pc, startTime, attempt, lastError, delay, aborted,
                 reason, timerId, onAbort, sleepPromise, outcome, site, calls,
                 thrown, retryOnCalls, onRetryCalls, sleeps, signalConsulted, hist>>

Next ==
  \/ CallSmartRetry
  \/ EntryAbortCheck
  \/ CheckTimeoutBeforeAttempt
  \/ CheckAbortAndInvoke
  \/ FnResolves
  \/ FnRejects
  \/ ConsultRetryOn
  \/ CheckTimeoutBeforeSleep
  \/ CheckAbortBeforeSleep
  \/ ComputeDelay
  \/ ClampDelay
  \/ NotifyOnRetry
  \/ StartSleep
  \/ TimerFires
  \/ Abort
  \/ ResumeAfterSleep
  \/ CatchSleepRejection
  \/ ThrowExhausted
  \/ Tick

Spec == Init /\ [][Next]_vars

\* the same invocation with a caller whose onRetry may throw or abort
HookSpec == HookInit /\ [][Next]_vars

\* the synchronous code of smartRetry between two awaits: once the call is
\* made or an awaited promise has settled, the event loop runs it to the next
\* await, return or throw
InvocationStep ==
  \/ CallSmartRetry
  \/ EntryAbortCheck
  \/ CheckTimeoutBeforeAttempt
  \/ CheckAbortAndInvoke
  \/ ConsultRetryOn
  \/ CheckTimeoutBeforeSleep
  \/ CheckAbortBeforeSleep
  \/ ComputeDelay
  \/ ClampDelay
  \/ NotifyOnRetry
  \/ StartSleep
  \/ ResumeAfterSleep
  \/ CatchSleepRejection
  \/ ThrowExhausted

\* the promise returned by fn settles
FnSettles == FnResolves \/ FnRejects

\* An invocation whose operation settles each time it is invoked and whose
\* timers fire: the event loop runs a continuation that is ready and a timer
\* that is set and not cleared.  Nothing obliges the caller to abort or the
\* clock to advance otherwise.
FairSpec ==
  /\ Spec
  /\ WF_vars(InvocationStep)
  /\ WF_vars(FnSettles)
  /\ WF_vars(TimerFires)

----------------------------------------------------------------------------
(* Two invocations of smartRetry under way at once.  JavaScript runs one   *)
(* of them at a time and changes over only where the running one is        *)
(* suspended: before its call, in `await fn(attempt)`, in `await sleep`,   *)
(* after it has settled.  The variables above are the locals of the one    *)
(* that runs, peer holds those of the other; the clock is the one thing    *)
(* both read.                                                              *)

\* the locals of the invocation that runs
Locals ==
  [options |-> options, cfg |-> cfg, pc |-> pc, startTime |-> startTime,
   attempt |-> attempt, lastError |-> lastError, delay |-> delay,
   aborted |-> aborted, reason |-> reason, timerId |-> timerId,
   onAbort |-> onAbort, sleepPromise |-> sleepPromise, outcome |-> outcome,
   calls |-> calls, thrown |-> thrown, retryOnCalls |-> retryOnCalls,
   onRetryCalls |-> onRetryCalls, sleeps |-> sleeps,
   signalConsulted |-> signalConsulted, abortedAtCall |-> abortedAtCall,
   abortedDuring |-> abortedDuring, clamped |-> clamped, site |-> site]

\* mutant: the loop counter is one variable of the module, not of the call
ResumedAttempt_Shared == attempt

\* for (let attempt = 0; ...), line 111: each invocation has its own
ResumedAttempt == peer.attempt

\* the invocation that runs is suspended and the other one goes on
Switch ==
  /\ peer.pc \notin {"none", "done"}
  /\ pc \in {"call", "running", "sleeping", "done"}
  /\ peer' = Locals
  /\ options' = peer.options
  /\ cfg' = peer.cfg
  /\ pc' = peer.pc
  /\ startTime' = peer.startTime
  /\ attempt' = ResumedAttempt
  /\ lastError' = peer.lastError
  /\ delay' = peer.delay
  /\ aborted' = peer.aborted
  /\ reason' = peer.reason
  /\ timerId' = peer.timerId
  /\ onAbort' = peer.onAbort
  /\ sleepPromise' = peer.sleepPromise
  /\ outcome' = peer.outcome
  /\ calls' = peer.calls
  /\ thrown' = peer.thrown
  /\ retryOnCalls' = peer.retryOnCalls
  /\ onRetryCalls' = peer.onRetryCalls
  /\ sleeps' = peer.sleeps
  /\ signalConsulted' = peer.signalConsulted
  /\ abortedAtCall' = peer.abortedAtCall
  /\ abortedDuring' = peer.abortedDuring
  /\ clamped' = peer.clamped
  /\ site' = peer.site
  /\ UNCHANGED <<now, probe, verdict>>

\* the options of the two concurrent callers: jitter off, the default policy
ConcurrentOptions ==
  { o \in RetryOptions :
      /\ o.maxRetries = Some(1)
      /\ o.baseDelayMs = Some(2)
      /\ o.maxDelayMs = undefined
      /\ o.jitter = Some(FALSE)
      /\ o.retryOn = undefined
      /\ o.onRetry = Some("hook")
      /\ o.timeoutMs \in {undefined, Some(MaxTimeout)} }

ConcurrentInit ==
  /\ StartWith(ConcurrentOptions)
  /\ peer \in { InitialLocals(o, isAborted) :
                  o \in ConcurrentOptions, isAborted \in {FALSE} }

ConcurrentNext ==
  \/ Next
  \/ Switch

ConcurrentSpec == ConcurrentInit /\ [][ConcurrentNext]_vars

----------------------------------------------------------------------------
(* policies.ts on its own: defaultRetryPolicy and isRetryableHttpError     *)
(* applied by a caller to an error of any shape.                           *)

\* error.code: absent, the four network codes, another string, a number
ProbeCodes ==
  {undefined, Some(Str("ENOENT")), Some(Num(0))}
    \cup { Some(Str(c)) : c \in RETRYABLE_NETWORK_CODES }

\* the numbers a status property holds: around each bound the policies test
StatusNumbers == {200, 399, 400, 404, 428, 429, 430, 499, 500, 503, 599, 600}

\* error.status: absent, an integer, a number that is no integer, a string
ProbeStatuses ==
  {undefined, Some(Frac(429)), Some(Str("503"))}
    \cup { Some(Num(n)) : n \in StatusNumbers }

\* error.response: absent, no object, an object with or without a status
ProbeResponses ==
  {undefined, Some(NonObjectResponse)}
    \cup { Some(ResponseObject(st)) :
             st \in {undefined, Some(Num(404)), Some(Num(429)), Some(Num(503)),
                     Some(Str("503"))} }

ProbeErrors ==
  {ErrorObject("primitive", 0, undefined, undefined, undefined)}
    \cup { ErrorObject("op", 0, c, st, r) :
             c \in ProbeCodes, st \in ProbeStatuses, r \in ProbeResponses }

PolicyInit ==
  /\ probe \in ProbeErrors
  /\ verdict = NoVerdict
  /\ options = NoOptions
  /\ cfg = NoCfg
  /\ pc = "idle"
  /\ now = 0
  /\ startTime = 0
  /\ attempt = 0
  /\ lastError = undefined
  /\ delay = 0
  /\ aborted = FALSE
  /\ reason = undefined
  /\ timerId = undefined
  /\ onAbort = FALSE
  /\ sleepPromise = "none"
  /\ outcome = Pending
  /\ calls = <<>>
  /\ thrown = <<>>
  /\ retryOnCalls = <<>>
  /\ onRetryCalls = <<>>
  /\ sleeps = <<>>
  /\ signalConsulted = FALSE
  /\ abortedAtCall = FALSE
  /\ abortedDuring = "none"
  /\ clamped = FALSE
  /\ site = "none"
  /\ peer = NoPeer

\* what an invocation of smartRetry owns: a policy function touches none of it
invocation ==
  <<options, cfg, pc, now, startTime, attempt, lastError, delay, aborted, reason,
    timerId, onAbort, sleepPromise, outcome, calls, thrown, retryOnCalls,
    onRetryCalls, sleeps, signalConsulted, abortedAtCall, abortedDuring, clamped,
    site, peer>>

\* defaultRetryPolicy(probe)
ApplyDefaultRetryPolicy ==
  /\ verdict = NoVerdict
  /\ verdict' = [fn |-> "defaultRetryPolicy", result |-> defaultRetryPolicy(probe)]
  /\ UNCHANGED <<probe, invocation>>

\* isRetryableHttpError(probe)
ApplyIsRetryableHttpError ==
  /\ verdict = NoVerdict
  /\ verdict' = [fn |-> "isRetryableHttpError", result |-> isRetryableHttpError(probe)]
  /\ UNCHANGED <<probe, invocation>>

PolicyNext ==
  \/ ApplyDefaultRetryPolicy
  \/ ApplyIsRetryableHttpError

PolicySpec == PolicyInit /\ [][PolicyNext]_vars

----------------------------------------------------------------------------
(* utils.ts on its own: calculateBackoffDelay and applyJitter applied by a *)
(* caller to arguments of its choice.                                      *)

\* attempt: every index up to MaxBackoffIndex and the first one that overflows
BackoffIndices == (0 .. MaxBackoffIndex) \cup {InfiniteExp}

\* baseDelayMs > 0
BackoffBases == {1, 3, 300}

\* maxDelayMs
BackoffCaps == {1, 3, 4, 20, 300, 5000}

\* the delay given to applyJitter
JitterDelays == {0, 1, 2, 3, 4, 6, 12}

\* the arguments of the call: maxDelayMs >= baseDelayMs, as validated
UtilsArguments ==
  { a \in [attempt : BackoffIndices, baseDelayMs : BackoffBases,
           maxDelayMs : BackoffCaps, delay : JitterDelays] :
      a.maxDelayMs >= a.baseDelayMs }

\* no invocation of smartRetry is under way
IdleInvocation ==
  /\ options = NoOptions
  /\ cfg = NoCfg
  /\ pc = "idle"
  /\ now = 0
  /\ startTime = 0
  /\ attempt = 0
  /\ lastError = undefined
  /\ delay = 0
  /\ aborted = FALSE
  /\ reason = undefined
  /\ timerId = undefined
  /\ onAbort = FALSE
  /\ sleepPromise = "none"
  /\ outcome = Pending
  /\ calls = <<>>
  /\ thrown = <<>>
  /\ retryOnCalls = <<>>
  /\ onRetryCalls = <<>>
  /\ sleeps = <<>>
  /\ signalConsulted = FALSE
  /\ abortedAtCall = FALSE
  /\ abortedDuring = "none"
  /\ clamped = FALSE
  /\ site = "none"
  /\ peer = NoPeer

UtilsInit ==
  /\ probe \in UtilsArguments
  /\ verdict = NoVerdict
  /\ IdleInvocation

\* calculateBackoffDelay(attempt, baseDelayMs, maxDelayMs)
ApplyCalculateBackoffDelay ==
  /\ verdict = NoVerdict
  /\ verdict' = [fn |-> "calculateBackoffDelay",
                 result |-> calculateBackoffDelay(probe.attempt, probe.baseDelayMs,
                                                  probe.maxDelayMs)]
  /\ UNCHANGED <<probe, invocation>>

\* applyJitter(delay)
ApplyApplyJitter ==
  /\ verdict = NoVerdict
  /\ \E v \in applyJitter(probe.delay) :
       verdict' = [fn |-> "applyJitter", result |-> v]
  /\ UNCHANGED <<probe, invocation>>

UtilsNext ==
  \/ ApplyCalculateBackoffDelay
  \/ ApplyApplyJitter

UtilsSpec == UtilsInit /\ [][UtilsNext]_vars

----------------------------------------------------------------------------
(* Properties.                                                             *)

\* validation passed and the effective options are in cfg
Validated == pc # "call" /\ validateOptions(options) = "ok"

\* <<0, 1, ..., n-1>>
Iota(n) == [i \in 1 .. n |-> i - 1]

Last(q) == q[Len(q)]

\* every verdict the retry predicate gave in this invocation was "retry"
AllVerdictsTrue ==
  \A i \in 1 .. Len(retryOnCalls) : retryOn(retryOnCalls[i][1], retryOnCalls[i][2])

\* no timeout is configured and the signal, if any, has not been aborted
NoTimeoutNoAbort == cfg.timeoutMs = undefined /\ ~aborted

\* the budget is set and the elapsed time has reached it
BudgetReached == cfg.timeoutMs # undefined /\ now - startTime >= Val(cfg.timeoutMs)

\* C1: with maxRetries = N, no timeout, no abort, a predicate that says retry and
\* an operation that fails on every invocation, the operation is invoked exactly
\* N+1 times, with never more than N+1 invocations on the way, and the outcome is
\* RetryExhaustedError with totalAttempts N+1 and the last thrown error as cause.
C1_ExhaustionAfterAllAttempts ==
  /\ Validated => Len(calls) <= cfg.maxRetries + 1
  /\ (/\ Validated
      /\ pc = "done"
      /\ NoTimeoutNoAbort
      /\ AllVerdictsTrue
      /\ Len(thrown) = Len(calls))
     => /\ Len(calls) = cfg.maxRetries + 1
        /\ outcome.kind = "RetryExhaustedError"
        /\ outcome.totalAttempts = Some(cfg.maxRetries + 1)
        /\ outcome.cause = Some(thrown[cfg.maxRetries + 1])
        /\ thrown[cfg.maxRetries + 1].id = cfg.maxRetries + 1

C1_Witness ==
  /\ pc = "done"
  /\ outcome.kind = "RetryExhaustedError"
  /\ NoTimeoutNoAbort
  /\ cfg.maxRetries = 2
  /\ Len(calls) = 3

\* C2 as stated: with a retryOn that always returns false and a failing
\* operation, for every maxRetries >= 0, the operation is invoked once and the
\* outcome is the very error it threw.
C2_NeverRetryRethrowsOriginal ==
  (/\ Validated
   /\ pc = "done"
   /\ cfg.retryOn = Some("never")
   /\ thrown # <<>>)
  => /\ calls = <<0>>
     /\ outcome = Rethrown(thrown[1])

\* C2 amended: with a retryOn that always returns false and an operation that
\* fails, the operation is invoked exactly once; for maxRetries >= 1 the outcome
\* is the very error it threw, unwrapped; for maxRetries = 0 the predicate is not
\* consulted and the outcome is RetryExhaustedError with that error as cause.
C2_NeverRetryRethrowsUnlessFinal ==
  (/\ Validated
   /\ pc = "done"
   /\ cfg.retryOn = Some("never")
   /\ thrown # <<>>)
  => /\ calls = <<0>>
     /\ Len(thrown) = 1
     /\ IF cfg.maxRetries >= 1
          THEN /\ outcome = Rethrown(thrown[1])
               /\ Len(retryOnCalls) = 1
          ELSE /\ outcome.kind = "RetryExhaustedError"
               /\ outcome.totalAttempts = Some(1)
               /\ outcome.cause = Some(thrown[1])
               /\ retryOnCalls = <<>>

C2_Witness ==
  /\ pc = "done"
  /\ cfg.retryOn = Some("never")
  /\ cfg.maxRetries >= 1
  /\ outcome.kind = "rethrown"
  /\ thrown # <<>>

\* C3: when the operation fails on its first k invocations and succeeds on the
\* next, the result of that invocation is returned, the attempt indices passed
\* were 0, 1, ..., k in order, and nothing is invoked afterwards; with no
\* timeout, no abort and a predicate that says retry, an invocation ends only
\* with that success or after all maxRetries+1 invocations failed.
C3_SuccessAfterFailures ==
  /\ outcome.kind = "returned"
     => /\ pc = "done"
        /\ calls = Iota(Len(calls))
        /\ Len(calls) <= cfg.maxRetries + 1
        /\ Len(thrown) = Len(calls) - 1
        /\ outcome.value = Some(Len(calls))
  /\ (Validated /\ pc = "done" /\ NoTimeoutNoAbort /\ AllVerdictsTrue)
     => /\ calls = Iota(Len(calls))
        /\ \/ outcome.kind = "returned" /\ Len(thrown) = Len(calls) - 1
           \/ Len(thrown) = cfg.maxRetries + 1

C3_Witness ==
  /\ outcome.kind = "returned"
  /\ NoTimeoutNoAbort
  /\ calls = <<0, 1, 2>>
  /\ Len(thrown) = 2

\* C4: the operation is never invoked when the elapsed time has reached
\* timeoutMs; the check before the attempt then ends the invocation with
\* TimeoutError, and once the invocation has ended nothing is invoked.
C4_NoAttemptPastBudget ==
  [][/\ calls' # calls => ~BudgetReached
     /\ (pc = "loop" /\ BudgetReached /\ pc' # pc)
        => /\ pc' = "done"
           /\ outcome'.kind = "TimeoutError"
           /\ calls' = calls
     /\ pc = "done" => calls' = calls]_vars

C4_Witness ==
  /\ pc = "done"
  /\ outcome.kind = "TimeoutError"
  /\ site = "preAttempt"
  /\ Len(calls) >= 1

\* C5: with timeoutMs set, the delay fixed at the clamp is min(computed delay,
\* remaining budget), every sleep started lasts at most the budget remaining at
\* that moment, and with no budget remaining no sleep is started and the
\* invocation ends with TimeoutError.
C5_SleepClampedToBudget ==
  [][/\ (pc = "clamp" /\ cfg.timeoutMs # undefined /\ pc' # pc)
        => LET remaining == Val(cfg.timeoutMs) - (now - startTime) IN
           IF remaining <= 0
             THEN /\ pc' = "done"
                  /\ outcome'.kind = "TimeoutError"
                  /\ sleeps' = sleeps
             ELSE /\ pc' = "onRetry"
                  /\ delay' = (IF delay <= remaining THEN delay ELSE remaining)
     /\ (sleeps' # sleeps /\ cfg.timeoutMs # undefined)
        => /\ Last(sleeps') = delay
           /\ Last(sleeps') >= 0
           /\ (now - startTime) + Last(sleeps') <= Val(cfg.timeoutMs)
     /\ pc = "done" => sleeps' = sleeps]_vars

C5_Witness ==
  /\ pc = "sleeping"
  /\ cfg.timeoutMs # undefined
  /\ ~cfg.jitter
  /\ sleeps # <<>>
  /\ Last(sleeps) > 0
  /\ Last(sleeps) < calculateBackoffDelay(attempt, cfg.baseDelayMs, cfg.maxDelayMs)

\* C6: when the signal aborts during the sleep that follows the failure of
\* attempt i, the sleep settles at once (rejected, its timer cleared), the
\* invocation then ends with AbortError with totalAttempts i+1, and the
\* operation is not invoked again.
C6_AbortDuringSleep ==
  [][/\ (pc = "sleeping" /\ sleepPromise = "pending" /\ ~aborted /\ aborted')
        => /\ sleepPromise' = "rejected"
           /\ timerId' = undefined
     /\ (pc = "sleeping" /\ sleepPromise = "rejected")
        => /\ sleepPromise' # "resolved"
           /\ calls' = calls
           /\ pc' # pc
              => /\ pc' = "done"
                 /\ outcome'.kind = "AbortError"
                 /\ outcome'.totalAttempts = Some(Last(calls) + 1)
                 /\ outcome'.totalAttempts = Some(Len(calls))]_vars

C6_Witness ==
  /\ pc = "done"
  /\ site = "sleep"
  /\ outcome.kind = "AbortError"
  /\ calls = <<0, 1>>
  /\ outcome.totalAttempts = Some(2)

\* C7: called with a valid configuration and a signal that is already aborted,
\* the invocation ends at the entry check with AbortError, totalAttempts 0, and
\* the operation is never invoked.
C7_AlreadyAbortedRejectsAtEntry ==
  (abortedAtCall /\ validateOptions(options) = "ok")
  => /\ calls = <<>>
     /\ pc \notin {"call", "entry"}
        => /\ pc = "done"
           /\ site = "entry"
           /\ outcome.kind = "AbortError"
           /\ outcome.totalAttempts = Some(0)
           /\ outcome.totalElapsedMs = Some(0)

C7_Witness ==
  /\ abortedAtCall
  /\ pc = "done"
  /\ outcome.kind = "AbortError"
  /\ calls = <<>>

\* C8: the operation is never invoked while the signal is aborted; before each
\* attempt, whatever its index, an aborted signal ends the invocation with
\* AbortError and the attempt is not started.
C8_NoAttemptWhileAborted ==
  [][/\ calls' # calls => ~aborted
     /\ (pc = "preAbort" /\ aborted /\ pc' # pc)
        => /\ pc' = "done"
           /\ outcome'.kind = "AbortError"
           /\ outcome'.totalAttempts = Some(Len(calls))
           /\ calls' = calls]_vars

C8_Witness ==
  /\ pc = "done"
  /\ site = "preAttempt"
  /\ outcome.kind = "AbortError"
  /\ attempt >= 1

\* the configurations C9 names: an option given with a value out of its range
InvalidConfig(o) ==
  \/ o.maxRetries # undefined /\ Val(o.maxRetries) < 0
  \/ o.baseDelayMs # undefined /\ Val(o.baseDelayMs) <= 0
  \/ /\ o.maxDelayMs # undefined
     /\ Val(o.maxDelayMs) < (IF o.baseDelayMs = undefined
                               THEN DEFAULT_baseDelayMs ELSE Val(o.baseDelayMs))
  \/ o.timeoutMs # undefined /\ Val(o.timeoutMs) <= 0

\* C9: a configuration with maxRetries < 0, baseDelayMs <= 0, maxDelayMs below
\* baseDelayMs or timeoutMs <= 0 is rejected with a configuration error before
\* the operation is invoked and before the signal is consulted, and a
\* configuration error is never thrown after an attempt has started.
C9_InvalidConfigRejectedFirst ==
  /\ InvalidConfig(options)
     => /\ calls = <<>>
        /\ ~signalConsulted
        /\ pc # "call" => (pc = "done" /\ outcome.kind = "Error")
  /\ outcome.kind = "Error"
     => /\ site = "validate"
        /\ calls = <<>>
        /\ ~signalConsulted
        /\ outcome.message \in {"maxRetries", "baseDelayMs", "maxDelayMs", "timeoutMs"}

C9_Witness ==
  /\ pc = "done"
  /\ outcome.kind = "Error"
  /\ abortedAtCall
  /\ options.timeoutMs = Some(0)

\* C10: every invocation that passes validation runs with an effective
\* maxDelayMs that is at least its effective baseDelayMs.
C10_EffectiveMaxDelayAtLeastBase ==
  (pc # "call" /\ outcome.kind # "Error") => cfg.maxDelayMs >= cfg.baseDelayMs

\* the three error classes of errors.ts that carry metadata
SmartRetryErrorKinds == {"TimeoutError", "AbortError", "RetryExhaustedError"}

\* C11: every TimeoutError, AbortError and RetryExhaustedError carries a
\* totalAttempts equal to the number of invocations of the operation made in
\* that invocation of smartRetry, whichever statement throws it.
C11_TotalAttemptsCountsInvocations ==
  outcome.kind \in SmartRetryErrorKinds
  => outcome.totalAttempts = Some(Len(calls))

C11_Witness ==
  /\ pc = "done"
  /\ site = "clamp"
  /\ outcome.kind = "TimeoutError"
  /\ outcome.totalAttempts = Some(2)

NominalDelay(j) == Min(cfg.maxDelayMs, cfg.baseDelayMs * 2 ^ (j - 1))

\* C13: with jitter off, no timeout, no abort, an onRetry hook and a predicate
\* that says retry, the j-th call of onRetry gets the error of attempt j-1, the
\* index j and the delay min(maxDelayMs, baseDelayMs * 2^(j-1)); it comes after
\* the failure of attempt j-1 and before the sleep that precedes attempt j; and
\* when every attempt has failed the hook has been called exactly maxRetries
\* times.
C13_OnRetryCallsFollowBackoff ==
  (/\ Validated
   /\ ~cfg.jitter
   /\ NoTimeoutNoAbort
   /\ AllVerdictsTrue
   /\ cfg.onRetry # undefined)
  => /\ \A j \in 1 .. Len(onRetryCalls) :
          /\ j <= Len(thrown)
          /\ onRetryCalls[j] = <<thrown[j], j, NominalDelay(j)>>
          /\ thrown[j].id = j
     /\ \A j \in 1 .. Len(sleeps) :
          /\ j <= Len(onRetryCalls)
          /\ sleeps[j] = onRetryCalls[j][3]
     /\ Len(onRetryCalls) <= Len(sleeps) + 1
     /\ Len(calls) <= Len(sleeps) + 1
     /\ Len(onRetryCalls) <= cfg.maxRetries
     /\ (pc = "done" /\ Len(thrown) = Len(calls))
        => Len(onRetryCalls) = cfg.maxRetries

C13_Witness ==
  /\ pc = "done"
  /\ ~cfg.jitter
  /\ NoTimeoutNoAbort
  /\ outcome.kind = "RetryExhaustedError"
  /\ Len(onRetryCalls) = 3
  /\ onRetryCalls[1][3] = 2
  /\ onRetryCalls[2][3] = 4
  /\ onRetryCalls[3][3] = 4

\* C14: with maxRetries = 0 the operation is invoked at most once, the retry
\* predicate is not consulted, onRetry is not called, no delay is computed and
\* no sleep is started; when the one invocation fails the outcome is
\* RetryExhaustedError with totalAttempts 1 and the error thrown as cause.
C14_ZeroRetriesSingleAttempt ==
  (Validated /\ cfg.maxRetries = 0)
  => /\ Len(calls) <= 1
     /\ retryOnCalls = <<>>
     /\ onRetryCalls = <<>>
     /\ sleeps = <<>>
     /\ delay = 0
     /\ sleepPromise = "none"
     /\ timerId = undefined
     /\ (pc = "done" /\ thrown # <<>>)
        => /\ calls = <<0>>
           /\ outcome.kind = "RetryExhaustedError"
           /\ outcome.totalAttempts = Some(1)
           /\ outcome.cause = Some(thrown[1])

C14_Witness ==
  /\ pc = "done"
  /\ cfg.maxRetries = 0
  /\ cfg.retryOn = Some("always")
  /\ cfg.onRetry # undefined
  /\ thrown # <<>>
  /\ outcome.kind = "RetryExhaustedError"

\* C15: with a timeout, no abort, a predicate that says retry and an operation
\* that fails every time, once the elapsed time has reached timeoutMs while not
\* all maxRetries+1 attempts have been started, no further attempt starts and
\* the invocation settles with TimeoutError after fewer than maxRetries+1
\* invocations, never with RetryExhaustedError.
C15_TimeoutBeforeExhaustion ==
  [][(/\ Validated
      /\ BudgetReached
      /\ Len(calls) <= cfg.maxRetries)
     => /\ calls' = calls
        /\ (/\ pc # "done"
            /\ pc' = "done"
            /\ ~aborted'
            /\ AllVerdictsTrue'
            /\ Len(thrown') = Len(calls'))
           => /\ outcome'.kind = "TimeoutError"
              /\ outcome'.totalAttempts = Some(Len(calls))
              /\ Len(calls) < cfg.maxRetries + 1
    ]_vars

C15_Witness ==
  /\ pc = "done"
  /\ site = "postFailure"
  /\ outcome.kind = "TimeoutError"
  /\ ~aborted
  /\ AllVerdictsTrue
  /\ cfg.maxRetries = 3
  /\ Len(calls) = 2
  /\ Len(thrown) = 2

C17_AbortDuringDelayOrExecutionCancels ==
  (pc = "done" /\ abortedDuring \in {"delay", "execution"})
  => outcome.kind = "AbortError"

\* the integer a status property of the object x holds, as a set of at most one
IntegerStatusOf(x) ==
  IF x.status # undefined /\ Val(x.status).typeof = "number" /\ Val(x.status).isInteger
    THEN {Val(x.status).n}
    ELSE {}

\* the HTTP status of probe: that of error.status, else that of
\* error.response.status, as a set of at most one
ProbeStatus ==
  IF probe.tag = "primitive" THEN {}
  ELSE IF IntegerStatusOf(probe) # {} THEN IntegerStatusOf(probe)
  ELSE IF probe.response # undefined /\ Val(probe.response).isObject
    THEN IntegerStatusOf(Val(probe.response))
  ELSE {}

\* probe carries one of the four network error codes
ProbeHasNetworkCode ==
  /\ probe.tag # "primitive"
  /\ probe.code \in { Some(Str(c)) :
                        c \in {"ECONNRESET", "ETIMEDOUT", "ENOTFOUND", "EAI_AGAIN"} }

C19_RetryableHttpStatuses ==
  verdict.fn = "isRetryableHttpError"
  => (verdict.result <=> \E n \in ProbeStatus : n = 429 \/ n \in 500 .. 599)

C19_Witness ==
  /\ verdict.fn = "isRetryableHttpError"
  /\ IntegerStatusOf(probe) = {}
  /\ ProbeStatus = {503}
  /\ verdict.result

\* C20: when the caller supplies retryOn, the step taken after a failed
\* attempt that is not the final one is decided by what retryOn returns for
\* the error of that attempt and its 0-based index: on true the loop goes on,
\* on false the invocation ends with that error; the default policy has no say.
C20_CallerPredicateDecides ==
  [][(/\ pc = "retryOn"
      /\ pc' # "retryOn"
      /\ cfg.retryOn # undefined)
     => /\ attempt < cfg.maxRetries
        /\ Val(lastError) = Last(thrown)
        /\ attempt = Last(calls)
        /\ retryOnCalls' = Append(retryOnCalls, <<Last(thrown), Last(calls)>>)
        /\ IF ApplyRetryOn(Val(cfg.retryOn), Last(thrown), Last(calls))
             THEN pc' = "postTimeout" /\ outcome' = Pending
             ELSE pc' = "done" /\ outcome' = Rethrown(Last(thrown))
    ]_vars

C20_Witness ==
  /\ pc = "postTimeout"
  /\ cfg.retryOn = Some("always")
  /\ extractHttpStatus(Val(lastError)) = Some(400)
  /\ ~defaultRetryPolicy(Val(lastError))
  /\ Len(retryOnCalls) = Len(thrown)

\* C21: for every attempt index i >= 0, base > 0 and cap >= base,
\* calculateBackoffDelay(i, base, cap) is min(cap, base * 2^i): base at i = 0,
\* twice the value of the index before or cap if that is less, never above cap,
\* and cap for the index whose product overflows.
C21_BackoffIsCappedDoubling ==
  verdict.fn = "calculateBackoffDelay"
  => LET i == probe.attempt
         base == probe.baseDelayMs
         cap == probe.maxDelayMs
     IN  /\ i < InfiniteExp => verdict.result = Min(cap, base * 2 ^ i)
         /\ i >= InfiniteExp => verdict.result = cap
         /\ i = 0 => verdict.result = base
         /\ (i > 0 /\ i < InfiniteExp)
            => verdict.result
                 = Min(cap, 2 * calculateBackoffDelay(i - 1, base, cap))
         /\ verdict.result <= cap
         /\ verdict.result >= base

C21_Witness ==
  /\ verdict.fn = "calculateBackoffDelay"
  /\ probe.attempt = 3
  /\ probe.baseDelayMs = 3
  /\ probe.maxDelayMs = 20
  /\ verdict.result = 20

\* C22: applyJitter(d) returns a value v with 0 <= v < d when d > 0, and
\* exactly 0 when d is 0.
C22_JitterWithinDelay ==
  verdict.fn = "applyJitter"
  => /\ verdict.result >= 0
     /\ probe.delay > 0 => verdict.result < probe.delay
     /\ probe.delay = 0 => verdict.result = 0

C22_Witness ==
  /\ verdict.fn = "applyJitter"
  /\ probe.delay = 12
  /\ verdict.result = 6

\* C23: a timer or an abort listener of sleep is registered only while the
\* invocation is suspended in a sleep that has not settled, the listener only
\* together with the timer; so once sleep has settled, by the timer or by the
\* abort, both are gone, a new sleep starts with none outstanding, and none is
\* left when the invocation has ended.
C23_NoTimerOrListenerLeft ==
  /\ (timerId # undefined \/ onAbort) => (pc = "sleeping" /\ sleepPromise = "pending")
  /\ onAbort => (timerId # undefined /\ cfg.signal # undefined)
  /\ sleepPromise \in {"resolved", "rejected"} => (timerId = undefined /\ ~onAbort)
  /\ pc \in {"sleep", "done"} => (timerId = undefined /\ ~onAbort)

C23_Witness ==
  /\ pc = "done"
  /\ site = "sleep"
  /\ abortedDuring = "delay"
  /\ Len(sleeps) = 2
  /\ timerId = undefined
  /\ ~onAbort

\* C24: when the signal is already aborted as sleep is called, sleep rejects
\* at once: no timer is started and no abort listener registered.
C24_SleepOnAbortedSignalRejects ==
  [][(/\ pc = "sleep"
      /\ cfg.signal # undefined
      /\ aborted
      /\ pc' # "sleep")
     => /\ sleepPromise' = "rejected"
        /\ timerId' = undefined
        /\ ~onAbort'
        /\ sleeps' = sleeps
        /\ now' = now
    ]_vars

C24_Witness ==
  /\ pc = "sleeping"
  /\ sleepPromise = "rejected"
  /\ abortedDuring = "hook"
  /\ timerId = undefined
  /\ sleeps = <<>>

\* C26: when the onRetry hook throws, its exception is the rejection of
\* smartRetry, with no SmartRetryError around it, and the loop ends there: no
\* sleep is started and the operation is not invoked again.
C26_HookExceptionPropagates ==
  (/\ Validated
   /\ cfg.onRetry = Some("throws")
   /\ onRetryCalls # <<>>)
  => /\ pc = "done"
     /\ site = "onRetry"
     /\ outcome.kind \notin SmartRetryErrorKinds
     /\ outcome.error = Some(HookError)
     /\ outcome.totalAttempts = undefined
     /\ outcome.cause = undefined
     /\ Len(onRetryCalls) = 1
     /\ sleeps = <<>>
     /\ timerId = undefined
     /\ calls = <<0>>

C26_Witness ==
  /\ pc = "done"
  /\ site = "onRetry"
  /\ outcome.error = Some(HookError)
  /\ calls = <<0>>
  /\ thrown # <<>>

\* C27: every AbortError of smartRetry, thrown at the entry check, before an
\* attempt, after a failed attempt or for an interrupted sleep, has the
\* signal's reason as its cause, not the last error of the operation.
C27_AbortCauseIsSignalReason ==
  outcome.kind = "AbortError"
  => /\ site \in {"entry", "preAttempt", "postFailure", "sleep"}
     /\ outcome.cause = reason
     /\ outcome.cause = Some(AbortReason)
     /\ outcome.cause # lastError

C27_Witness ==
  /\ outcome.kind = "AbortError"
  /\ site = "postFailure"
  /\ lastError # undefined
  /\ outcome.cause = Some(AbortReason)

BudgetReachedInAttempt ==
  /\ BudgetReached
  /\ Len(thrown) = Len(calls)
  /\ Len(sleeps) < Len(calls)

FailedNonFinal == { j \in 1 .. Len(thrown) : calls[j] < cfg.maxRetries }

\* C29: the retry predicate is consulted exactly once for each failed attempt
\* with an index below maxRetries, with the error and the 0-based index of that
\* attempt, and never for the attempt of index maxRetries; so it is called at
\* most maxRetries times, and each time before the delay of that retry is
\* computed, reported or slept.
C29_PredicateOncePerNonFinalFailure ==
  Validated
  => /\ Len(retryOnCalls) <= cfg.maxRetries
     /\ \A j \in 1 .. Len(retryOnCalls) :
          /\ j <= Len(thrown)
          /\ retryOnCalls[j] = <<thrown[j], calls[j]>>
          /\ calls[j] = j - 1
          /\ calls[j] < cfg.maxRetries
     /\ Len(retryOnCalls)
          = Cardinality(FailedNonFinal) - (IF pc = "retryOn" THEN 1 ELSE 0)
     /\ pc \in {"delay", "clamp", "onRetry", "sleep", "sleeping"}
        => Len(retryOnCalls) = Len(thrown)
     /\ Len(onRetryCalls) <= Len(retryOnCalls)
     /\ Len(sleeps) <= Len(retryOnCalls)

C29_Witness ==
  /\ pc = "done"
  /\ outcome.kind = "RetryExhaustedError"
  /\ cfg.maxRetries = 2
  /\ Len(thrown) = 3
  /\ Len(retryOnCalls) = 2

\* C30: for every retry, with or without jitter or timeout, the delay slept is
\* the delay reported to onRetry, is >= 0 and is at most the backoff
\* min(maxDelayMs, baseDelayMs * 2^i) of the index i of the attempt that just
\* failed; with jitter it is the jitter of that capped backoff, hence below it
\* when that is positive.
C30_DelayWithinBackoff ==
  Validated
  => /\ \A j \in 1 .. Len(sleeps) :
          /\ sleeps[j] >= 0
          /\ sleeps[j] <= NominalDelay(j)
          /\ (cfg.jitter /\ NominalDelay(j) > 0) => sleeps[j] < NominalDelay(j)
          /\ cfg.onRetry # undefined => onRetryCalls[j][3] = sleeps[j]
     /\ \A j \in 1 .. Len(onRetryCalls) :
          /\ onRetryCalls[j][3] >= 0
          /\ onRetryCalls[j][3] <= NominalDelay(j)
          /\ onRetryCalls[j][2] = j
     /\ pc \in {"onRetry", "sleep"} => delay <= NominalDelay(attempt + 1)
     /\ (pc = "sleep" /\ cfg.onRetry # undefined) => Last(onRetryCalls)[3] = delay

C30_Witness ==
  /\ cfg.jitter
  /\ cfg.timeoutMs # undefined
  /\ Len(sleeps) = 2
  /\ Len(onRetryCalls) = 2
  /\ sleeps[2] > 0
  /\ onRetryCalls[2][3] = sleeps[2]

\* what an invocation with the locals l shows when it runs alone, with jitter
\* off and the default policy: attempt indices 0, 1, 2, ..., errors of its own
\* attempts, the delays of its own backoff, metadata counting its own
\* invocations and its own elapsed time, and the outcome its own errors,
\* budget and signal give
AsIfAlone(l) ==
  l.pc \notin {"call", "none"}
  => /\ l.calls = Iota(Len(l.calls))
     /\ Len(l.calls) <= l.cfg.maxRetries + 1
     /\ Len(l.thrown) <= Len(l.calls)
     /\ \A j \in 1 .. Len(l.thrown) : l.thrown[j].id = j
     /\ \A j \in 1 .. Len(l.sleeps) :
          /\ l.sleeps[j] <= Min(l.cfg.maxDelayMs, l.cfg.baseDelayMs * 2 ^ (j - 1))
          /\ l.cfg.timeoutMs = undefined
             => l.sleeps[j] = Min(l.cfg.maxDelayMs, l.cfg.baseDelayMs * 2 ^ (j - 1))
     /\ l.startTime <= now
     /\ l.outcome.kind \in SmartRetryErrorKinds
        => l.outcome.totalAttempts = Some(Len(l.calls))
     /\ l.outcome.kind = "TimeoutError"
        => /\ l.cfg.timeoutMs # undefined
           /\ Val(l.outcome.totalElapsedMs) >= Val(l.cfg.timeoutMs)
           /\ Val(l.outcome.totalElapsedMs) <= now - l.startTime
     /\ l.outcome.kind = "AbortError" => l.aborted
     /\ l.outcome.kind = "RetryExhaustedError"
        => /\ Len(l.calls) = l.cfg.maxRetries + 1
           /\ l.outcome.cause = Some(l.thrown[Len(l.thrown)])
     /\ l.outcome.kind = "rethrown"
        => /\ l.outcome.error = Some(l.thrown[Len(l.thrown)])
           /\ ~defaultRetryPolicy(l.thrown[Len(l.thrown)])
     /\ (/\ l.pc = "done"
         /\ l.cfg.timeoutMs = undefined
         /\ ~l.aborted
         /\ Len(l.thrown) = Len(l.calls)
         /\ \A j \in 1 .. Len(l.thrown) : defaultRetryPolicy(l.thrown[j]))
        => l.outcome.kind = "RetryExhaustedError"

\* C25: of two invocations of smartRetry whose attempts and sleeps interleave
\* in any order, each has the attempt indices, the attempt count, the delays
\* and the outcome it has alone: the counter, the start time and the last
\* error belong to the invocation.
C25_ConcurrentInvocationsIndependent ==
  /\ AsIfAlone(Locals)
  /\ AsIfAlone(peer)

C25_Witness ==
  /\ pc = "done"
  /\ peer.pc = "done"
  /\ outcome.kind = "RetryExhaustedError"
  /\ Len(calls) = 2
  /\ peer.outcome.kind = "TimeoutError"
  /\ Len(peer.calls) = 1
  /\ peer.startTime > startTime

\* the attempt of index maxRetries has been made and has failed
FinalAttemptFailed ==
  /\ calls # <<>>
  /\ Last(calls) = cfg.maxRetries
  /\ Len(thrown) = Len(calls)

SettledAtCheckPoint == pc = "done" /\ site \in {"preAttempt", "postFailure"}

ClampedSleepStarted ==
  /\ clamped
  /\ sleeps # <<>>
  /\ Len(sleeps) = Len(thrown)

\* C33: after a sleep whose delay was clamped to the remaining budget has
\* started, the operation is not invoked again; when the sleep has resolved
\* the budget is reached, and unless the sleep is rejected the invocation
\* settles at the timeout check of the next loop iteration with TimeoutError,
\* totalAttempts the number of attempts made before the sleep, and the error
\* of the last of them as cause.
C33_ClampedSleepEndsInTimeout ==
  (Validated /\ ClampedSleepStarted) =>
    /\ Len(calls) = Len(sleeps)
    /\ pc \in {"sleeping", "loop", "done"}
    /\ (pc = "sleeping" /\ sleepPromise = "resolved") => BudgetReached
    /\ pc = "loop" => (BudgetReached /\ attempt = Len(calls))
    /\ (pc = "done" /\ site # "sleep") =>
         /\ site = "preAttempt"
         /\ outcome.kind = "TimeoutError"
         /\ outcome.totalAttempts = Some(Len(calls))
         /\ outcome.cause = Some(Last(thrown))
         /\ Val(outcome.totalElapsedMs) >= Val(cfg.timeoutMs)

\* a delay strictly cut down, slept to the end, and the timeout that follows
C33_Witness ==
  /\ pc = "done"
  /\ ClampedSleepStarted
  /\ site = "preAttempt"
  /\ outcome.kind = "TimeoutError"
  /\ outcome.totalAttempts = Some(Len(sleeps))
  /\ cfg.jitter = FALSE
  /\ Last(sleeps) < NominalDelay(Len(sleeps))

\* the timer's callback runs in this step
TimerCallbackRuns == timerId # undefined /\ timerId' = undefined /\ aborted' = aborted

\* the signal is aborted in this step
SignalAborts == ~aborted /\ aborted'

\* C34: the promise of sleep settles once.  It changes only from pending to
\* resolved or rejected, and a settled promise stays as it is until the await
\* of smartRetry continues.  While it is pending the timer's callback resolves
\* it and an abort of the signal rejects it, clearing the timer; an abort after
\* it resolved leaves it resolved, and after it rejected no timer is left that
\* could fire.
C34_SleepSettlesOnce ==
  [][/\ sleepPromise' # sleepPromise =>
          \/ sleepPromise = "none" /\ sleepPromise' \in {"pending", "rejected"}
          \/ sleepPromise = "pending" /\ sleepPromise' \in {"resolved", "rejected"}
          \/ /\ sleepPromise \in {"resolved", "rejected"}
             /\ sleepPromise' = "none"
             /\ pc = "sleeping"
             /\ pc' # "sleeping"
     /\ (sleepPromise = "pending" /\ TimerCallbackRuns) => sleepPromise' = "resolved"
     /\ (sleepPromise = "pending" /\ SignalAborts) =>
          /\ sleepPromise' = "rejected"
          /\ timerId' = undefined
          /\ ~onAbort'
     /\ (sleepPromise = "resolved" /\ SignalAborts) => sleepPromise' = "resolved"
     /\ sleepPromise = "rejected" => (timerId = undefined /\ ~TimerCallbackRuns)
     /\ sleepPromise # "pending" => ~TimerCallbackRuns
    ]_vars

\* the timer fired first and the signal was aborted before the await continued
C34_Witness ==
  /\ pc = "sleeping"
  /\ sleepPromise = "resolved"
  /\ aborted
  /\ abortedDuring = "afterDelay"
  /\ timerId = undefined

\* C35: the promise of the retry sleep is rejected only with a signal that is
\* aborted, so the catch of smartRetry always finds signal.aborted true: the
\* branch with the last operation error as cause is never taken, the
\* AbortError of an interrupted or refused sleep has the signal's reason as
\* cause, and without a signal the sleep is never rejected.
C35_SleepRejectsOnlyOnAbort ==
  Validated =>
    /\ sleepPromise = "rejected" =>
         /\ pc = "sleeping"
         /\ SignalAborted
         /\ reason = Some(AbortReason)
    /\ cfg.signal = undefined => (sleepPromise # "rejected" /\ site # "sleep")
    /\ (pc = "done" /\ site = "sleep") =>
         /\ SignalAborted
         /\ outcome.kind = "AbortError"
         /\ outcome.cause = reason
         /\ outcome.cause # Some(Last(thrown))
         /\ outcome.totalAttempts = Some(Len(calls))

\* a sleep interrupted by abort() and the AbortError of the catch
C35_Witness ==
  /\ pc = "done"
  /\ site = "sleep"
  /\ abortedDuring = "delay"
  /\ outcome.kind = "AbortError"
  /\ outcome.cause = Some(AbortReason)
  /\ lastError = Some(Last(thrown))

\* C36: an invocation with a valid configuration, whose operation settles
\* whenever it is invoked and whose timers fire unless the signal is aborted,
\* reaches a terminal outcome; and in every run the operation is invoked at
\* most maxRetries + 1 times, with the attempt indices 0, 1, 2, ... in order.
C36_TerminatesWithinMaxAttempts ==
  /\ [](Validated => (/\ Len(calls) <= cfg.maxRetries + 1
                      /\ calls = Iota(Len(calls))))
  /\ Validated ~> (pc = "done" /\ outcome.kind # "pending")

\* every permitted attempt was made before the invocation ended
C36_Witness ==
  /\ pc = "done"
  /\ Validated
  /\ cfg.maxRetries = MaxRetriesBound
  /\ calls = Iota(MaxRetriesBound + 1)
  /\ Len(sleeps) = MaxRetriesBound
  /\ outcome.kind # "pending"

====
